---- MODULE Spec2Model ----
(***************************************************************************)
(* Holiday-property dashboard (streamlit_app.py) and the header-migration  *)
(* utility (update_header.py).                                             *)
(*                                                                         *)
(* A DataFrame is a record [obj, cols, rows]: obj names the Python object  *)
(* holding it, cols is its set of column names and rows its sequence of    *)
(* rows, each row a function from cols to cell values.                     *)
(* A numeric cell is a tuple: <<>> is NaN, <<n, d>> is the number n/d in   *)
(* lowest terms (d > 0), <<1, 0>> and <<-1, 0>> are +inf and -inf.         *)
(* A text cell is a string; NA is the missing text cell.                   *)
(***************************************************************************)
EXTENDS Integers, Sequences, FiniteSets, TLC

VARIABLES
    csv,            \* the dataset file as read_csv sees it (text cells)
    mapping,        \* kunta_maakunta_map: the dict returned by load_mapping
    data,           \* the loaded table, or NotLoaded
    data0,          \* history: the table as load_data returned it
    selected,       \* widget values of the last script run
    filtered_data,  \* streamlit_app.py:142-169
    chart_data,     \* streamlit_app.py:177-194
    bar_chart_data, \* streamlit_app.py:253-266, Unbound while never assigned
    shown,          \* what the last script run put on the page
    divisions,      \* history: the divisions the last script run performed
    file,           \* update_header.py: the lines of the dataset file
    file0,          \* history: the file as its last other writer left it
    runs            \* update_header.py: runs of the utility since then

vars == <<csv, mapping, data, data0, selected, filtered_data, chart_data,
          bar_chart_data, shown, divisions, file, file0, runs>>

appVars == <<csv, mapping, data, data0, selected, filtered_data, chart_data,
             bar_chart_data, shown, divisions>>

(***************************************************************************)
(* Program constants                                                       *)
(***************************************************************************)
YEAR_COL == "vuosi"
CODE_COL == "aluejakotunniste"
MUNICIPALITY_COL == "aluejakoselite"
REGION_COL == "maakunta"
SHORELINE_COL == "rantatyyppi"
COUNT_COL == "lukumäärä"
AREA_COL == "ka_pinta_ala_m2"
MEDIAN_COL == "mediaanihinta_eur"
MEAN_COL == "keskihinta_eur"
METRIC_COLS == {COUNT_COL, AREA_COL, MEDIAN_COL, MEAN_COL}
SHORELINE_OPTIONS ==
    [l \in {"Kaikki", "Ranta", "Ei rantaa"} |->
        CASE l = "Kaikki" -> "None"
          [] l = "Ranta" -> "ranta"
          [] l = "Ei rantaa" -> "ei_rantaa"]
UNKNOWN_REGION == "Tuntematon"
AGGREGATION_LEVELS == {"Maakunta", "Kunta"}
new_header == <<YEAR_COL, CODE_COL, MUNICIPALITY_COL, COUNT_COL, AREA_COL,
                MEDIAN_COL, MEAN_COL, SHORELINE_COL>>

(***************************************************************************)
(* Cell values and float arithmetic                                        *)
(***************************************************************************)
NaN == <<>>
NA == "<NA>"
PosInf == <<1, 0>>
NegInf == <<0 - 1, 0>>

Abs(n) == IF n < 0 THEN 0 - n ELSE n

RECURSIVE GCD(_, _)
GCD(a, b) == IF b = 0 THEN a ELSE GCD(b, a % b)

\* n/d in lowest terms, d # 0
Frac(n, d) ==
    LET g == GCD(Abs(n), Abs(d))
        s == IF d < 0 THEN 0 - 1 ELSE 1
    IN  <<(s * n) \div g, (s * d) \div g>>

Num(n) == <<n, 1>>

IsNaN(v) == v = NaN
IsFinite(v) == v # NaN /\ v[2] # 0

\* float multiplication (operands are NaN or finite)
Mul(a, b) ==
    IF IsNaN(a) \/ IsNaN(b) THEN NaN ELSE Frac(a[1] * b[1], a[2] * b[2])

\* float addition (operands finite)
Add(a, b) == Frac(a[1] * b[2] + b[1] * a[2], a[2] * b[2])

\* float (numpy) division: x/0 is +-inf, 0/0 is NaN, no exception
TrueDiv(a, b) ==
    IF IsNaN(a) \/ IsNaN(b) THEN NaN
    ELSE IF b[1] = 0 THEN (IF a[1] = 0 THEN NaN
                           ELSE IF a[1] > 0 THEN PosInf ELSE NegInf)
    ELSE Frac(a[1] * b[2], a[2] * b[1])

\* a <= b for finite a, b
Leq(a, b) == a[1] * b[2] <= b[1] * a[2]

\* Series.sum(): skipna, min_count=0, so an all-NaN series sums to 0
RECURSIVE SumSkipNa(_)
SumSkipNa(s) ==
    IF s = <<>> THEN Num(0)
    ELSE IF IsNaN(Head(s)) THEN SumSkipNa(Tail(s))
    ELSE Add(Head(s), SumSkipNa(Tail(s)))

NotNaN(v) == ~IsNaN(v)

\* Series.mean(): skipna, NaN when nothing is left
Mean(s) ==
    LET kept == SelectSeq(s, NotNaN)
    IN  IF kept = <<>> THEN NaN ELSE TrueDiv(SumSkipNa(kept), Num(Len(kept)))

RECURSIVE Insert(_, _)
\* v put into the ascending sequence s
Insert(v, s) ==
    IF s = <<>> THEN <<v>>
    ELSE IF Leq(v, Head(s)) THEN <<v>> \o s
    ELSE <<Head(s)>> \o Insert(v, Tail(s))

RECURSIVE Sorted(_)
Sorted(s) == IF s = <<>> THEN <<>> ELSE Insert(Head(s), Sorted(Tail(s)))

\* Series.median(): skipna, the middle value or the mean of the two middle ones
Median(s) ==
    LET kept == Sorted(SelectSeq(s, NotNaN))
        n == Len(kept)
    IN  IF n = 0 THEN NaN
        ELSE IF n % 2 = 1 THEN kept[(n + 1) \div 2]
        ELSE TrueDiv(Add(kept[n \div 2], kept[n \div 2 + 1]), Num(2))

Range(s) == {s[i] : i \in DOMAIN s}

\* the sequences of length 0..n over S
SeqsUpTo(S, n) == UNION {[1..k -> S] : k \in 0..n}

(***************************************************************************)
(* Text to number                                                          *)
(***************************************************************************)
\* the numerals that occur in the modelled files and the numbers they denote
Numerals ==
    [t \in {"0", "10", "30", "50", "80", "90", "100", "150", "200",
            "100.0", "2020", "2021", "2022"} |->
        CASE t = "0" -> 0 [] t = "10" -> 10 [] t = "30" -> 30
          [] t = "50" -> 50 [] t = "80" -> 80 [] t = "90" -> 90
          [] t = "100" -> 100 [] t = "150" -> 150 [] t = "200" -> 200
          [] t = "100.0" -> 100
          [] t = "2020" -> 2020 [] t = "2021" -> 2021 [] t = "2022" -> 2022]

\* pd.to_numeric(..., errors='coerce'): unparsable text and missing cells give NaN
to_numeric(t) == IF t \in DOMAIN Numerals THEN Num(Numerals[t]) ELSE NaN

\* .astype(str): a missing cell becomes the text 'nan'
astype_str(t) == IF t = NA THEN "nan" ELSE t

\* .str.replace(',', '.', regex=False) on the texts that occur in the files
str_replace_comma(t) == IF t = "100,0" THEN "100.0" ELSE t

\* .astype(int) of a finite float: truncation
astype_int(v) == v[1] \div v[2]

(***************************************************************************)
(* DataFrames                                                              *)
(***************************************************************************)
DataFrame(o, c, r) == [obj |-> o, cols |-> c, rows |-> r]

\* data is None: load_data failed or has not run
NotLoaded == DataFrame("None", {}, <<>>)

\* a name that no assignment has bound in this script run
Unbound == DataFrame("unbound", {}, <<>>)

\* pd.DataFrame()
EmptyDataFrame == DataFrame("new", {}, <<>>)

\* DataFrame.empty: no rows or no columns
IsEmpty(df) == df.rows = <<>> \/ df.cols = {}

\* df[col]: the column as a sequence
Column(df, col) == [i \in DOMAIN df.rows |-> df.rows[i][col]]

\* row r with column col set to v
WithCell(r, col, v) ==
    [c \in DOMAIN r \cup {col} |-> IF c = col THEN v ELSE r[c]]

(***************************************************************************)
(* load_data                                                               *)
(***************************************************************************)
\* lines 53-56: the year column and every metric column present become numeric
CoerceRow(r) ==
    [c \in DOMAIN r |->
        IF c = YEAR_COL THEN to_numeric(r[c])
        ELSE IF c \in METRIC_COLS
            THEN to_numeric(str_replace_comma(astype_str(r[c])))
        ELSE r[c]]

HasYear(r) == ~IsNaN(r[YEAR_COL])

\* lines 58-60: year to int, municipality and shoreline type to text
CastRow(r) ==
    [c \in DOMAIN r |->
        IF c = YEAR_COL THEN astype_int(r[c])
        ELSE IF c \in {MUNICIPALITY_COL, SHORELINE_COL} THEN astype_str(r[c])
        ELSE r[c]]

\* Series.map(dict) on one cell: a key the dict lacks gives a missing value
MapCell(v, mapping_dict) ==
    IF v \in DOMAIN mapping_dict THEN mapping_dict[v] ELSE NA

\* Series.fillna(value) on one cell
fillna(v, value) == IF v = NA THEN value ELSE v

\* RegionOf without the fillna of line 63
RegionOfNoFillna(r, mapping_dict) ==
    IF DOMAIN mapping_dict # {}
    THEN astype_str(MapCell(r[MUNICIPALITY_COL], mapping_dict))
    ELSE astype_str(UNKNOWN_REGION)

\* lines 62-66: the region of a row
RegionOf(r, mapping_dict) ==
    IF DOMAIN mapping_dict # {}
    THEN astype_str(fillna(MapCell(r[MUNICIPALITY_COL], mapping_dict),
                           UNKNOWN_REGION))
    ELSE astype_str(UNKNOWN_REGION)

\* lines 52-68: the table load_data returns for the file contents raw
load_data(raw, mapping_dict) ==
    LET coerced == [i \in DOMAIN raw.rows |-> CoerceRow(raw.rows[i])]
        kept    == SelectSeq(coerced, HasYear)
        cast    == [i \in DOMAIN kept |-> CastRow(kept[i])]
        out     == [i \in DOMAIN cast |->
                      WithCell(cast[i], REGION_COL,
                               RegionOf(cast[i], mapping_dict))]
    IN  DataFrame("data", raw.cols \cup {REGION_COL}, out)

(***************************************************************************)
(* Inputs of the loader                                                    *)
(***************************************************************************)
MaxRawRows == 2

FileCols == Range(new_header)

\* aluejakotunniste of a municipality
CodeOf(m) ==
    CASE m = "muniX" -> "001" [] m = "muniY" -> "002" [] m = "muniZ" -> "003"
      [] OTHER -> "000"

\* one line of the dataset file, as text cells
RawRow(y, m, s, n, a, md, p) ==
    [c \in FileCols |->
        CASE c = YEAR_COL -> y
          [] c = CODE_COL -> CodeOf(m)
          [] c = MUNICIPALITY_COL -> m
          [] c = COUNT_COL -> n
          [] c = AREA_COL -> a
          [] c = MEDIAN_COL -> md
          [] c = MEAN_COL -> p
          [] c = SHORELINE_COL -> s]

\* file lines for the loader: unparsable years, a missing municipality cell,
\* unparsable counts, a decimal comma
LoadRawRows ==
    {RawRow(y, m, "ranta", n, "50", "90", "100,0") :
        y \in {"2020", "abc"}, m \in {"muniX", "muniZ", NA}, n \in {"10", "abc"}}

LoadRegions == {"RegionA", "RegionB"}

\* the dicts load_mapping can return: any keys, region names or missing values
Mappings ==
    UNION {[K -> LoadRegions \cup {NA}] : K \in SUBSET {"muniX", "muniY", "muniZ"}}

Idle == DataFrame("idle", {}, <<>>)
NoSelection ==
    [level |-> "", areas |-> {}, years |-> <<0, 0>>, shoreline |-> "",
     metric |-> ""]

InitLoad ==
    /\ csv \in {DataFrame("csv", FileCols, r) :
                    r \in SeqsUpTo(LoadRawRows, MaxRawRows)}
    /\ mapping \in Mappings
    /\ data = NotLoaded
    /\ data0 = NotLoaded
    /\ selected = NoSelection
    /\ filtered_data = Idle
    /\ chart_data = Idle
    /\ bar_chart_data = Idle
    /\ shown = {}
    /\ divisions = {}
    /\ file = <<>>
    /\ file0 = <<>>
    /\ runs = 0

\* line 77: data = load_data(DATA_FILE, kunta_maakunta_map)
LoadData ==
    /\ data = NotLoaded
    /\ data' = load_data(csv, mapping)
    /\ data0' = data'
    /\ UNCHANGED <<csv, mapping, selected, filtered_data, chart_data,
                   bar_chart_data, shown, divisions, file, file0, runs>>

NextLoad == LoadData

SpecLoad == InitLoad /\ [][NextLoad]_vars

(***************************************************************************)
(* pandas operations used by the script                                    *)
(***************************************************************************)
RECURSIVE Compress(_, _)
\* the rows whose mask entry is True
Compress(rows, mask) ==
    IF rows = <<>> THEN <<>>
    ELSE (IF Head(mask) THEN <<Head(rows)>> ELSE <<>>)
         \o Compress(Tail(rows), Tail(mask))

\* GetitemMask handing out the rows inside the object indexed
GetitemMaskView(df, mask) ==
    DataFrame(df.obj, df.cols, Compress(df.rows, mask))

\* df[mask]: boolean indexing builds a new object, never a view of df
GetitemMask(df, mask) ==
    DataFrame("filtered_data", df.cols, Compress(df.rows, mask))

\* df.copy()
Copy(df, name) == DataFrame(name, df.cols, df.rows)

\* df[col] = values: writes into the object df names
SetItem(df, col, values) ==
    DataFrame(df.obj, df.cols \cup {col},
              [i \in DOMAIN df.rows |-> WithCell(df.rows[i], col, values[i])])

\* df.drop(columns=[col], inplace=True)
DropColumn(df, col) ==
    DataFrame(df.obj, df.cols \ {col},
              [i \in DOMAIN df.rows |->
                  [c \in DOMAIN df.rows[i] \ {col} |-> df.rows[i][c]]])

\* Series.isin(values)
isin(col, values) == [i \in DOMAIN col |-> col[i] \in values]

\* elementwise product and quotient of two columns
MulColumns(a, b) == [i \in DOMAIN a |-> Mul(a[i], b[i])]
DivColumns(a, b) == [i \in DOMAIN a |-> TrueDiv(a[i], b[i])]

\* the texts of the model in the order Python sorts them
TextOrder ==
    <<"RegionA", "RegionB", "Tuntematon", "ei_rantaa", "muniW", "muniX",
      "muniY", "muniZ", "nan", "ranta">>

TextRank(t) == CHOOSE i \in DOMAIN TextOrder : TextOrder[i] = t

\* the position of a group-key cell in sort order (years are integers)
CellRank(c, v) == IF c = YEAR_COL THEN v ELSE TextRank(v)

RECURSIVE KeyLess(_, _, _)
\* lexicographic order of two group keys over the key columns by
KeyLess(by, k1, k2) ==
    IF by = <<>> THEN FALSE
    ELSE LET a == CellRank(Head(by), k1[Head(by)])
             b == CellRank(Head(by), k2[Head(by)])
         IN  IF a # b THEN a < b ELSE KeyLess(Tail(by), k1, k2)

RECURSIVE SortKeys(_, _)
\* the keys of the set K in ascending order
SortKeys(by, K) ==
    IF K = {} THEN <<>>
    ELSE LET m == CHOOSE k \in K : \A o \in K \ {k} : KeyLess(by, k, o)
         IN  <<m>> \o SortKeys(by, K \ {m})

\* the group key of a row
KeyOf(r, by) == [c \in Range(by) |-> r[c]]

\* the values of column col in the rows of the group k
GroupColumn(df, by, k, col) ==
    LET idx == {i \in DOMAIN df.rows : KeyOf(df.rows[i], by) = k}
        F[j \in 0..Len(df.rows)] ==
            IF j = 0 THEN <<>>
            ELSE IF j \in idx THEN Append(F[j - 1], df.rows[j][col])
            ELSE F[j - 1]
    IN  F[Len(df.rows)]

\* one aggregation function applied to the values of a group
Reduce(func, values) ==
    CASE func = "sum" -> SumSkipNa(values)
      [] func = "mean" -> Mean(values)
      [] func = "median" -> Median(values)

\* df.groupby(by, as_index=False).agg(spec): one row per key present in df,
\* keys sorted; spec maps each output column to <<input column, function>>
GroupByAgg(df, by, spec, name) ==
    LET keys == SortKeys(by, {KeyOf(df.rows[i], by) : i \in DOMAIN df.rows})
        Row(k) ==
            [c \in Range(by) \cup DOMAIN spec |->
                IF c \in Range(by) THEN k[c]
                ELSE Reduce(spec[c][2], GroupColumn(df, by, k, spec[c][1]))]
    IN  DataFrame(name, Range(by) \cup DOMAIN spec,
                  [i \in DOMAIN keys |-> Row(keys[i])])

(***************************************************************************)
(* The script run: streamlit_app.py:80-295                                 *)
(***************************************************************************)
\* line 141
filter_col(level) == IF level = "Maakunta" THEN REGION_COL ELSE MUNICIPALITY_COL

\* lines 96 and 103: the options of the area multiselect
AreaOptions(df, level) ==
    IF level = "Maakunta"
    THEN {r \in Range(Column(df, REGION_COL)) : r # UNKNOWN_REGION}
    ELSE Range(Column(df, MUNICIPALITY_COL))

\* line 111: the ends of the year slider
min_year(df) ==
    CHOOSE y \in Range(Column(df, YEAR_COL)) :
        \A z \in Range(Column(df, YEAR_COL)) : y <= z
max_year(df) ==
    CHOOSE y \in Range(Column(df, YEAR_COL)) :
        \A z \in Range(Column(df, YEAR_COL)) : z <= y

\* FilterRows with the upper end of the year range excluded
FilterRowsYearExclusive(df, sel) ==
    LET byArea == GetitemMask(df, isin(Column(df, filter_col(sel.level)),
                                       sel.areas))
        years  == Column(byArea, YEAR_COL)
        byYear == GetitemMask(byArea,
                              [i \in DOMAIN years |->
                                  /\ years[i] >= sel.years[1]
                                  /\ years[i] < sel.years[2]])
        shore  == Column(byYear, SHORELINE_COL)
        value  == SHORELINE_OPTIONS[sel.shoreline]
    IN  IF value # "None"
        THEN GetitemMask(byYear, [i \in DOMAIN shore |-> shore[i] = value])
        ELSE byYear

\* lines 142-152: the area, year and shoreline filters
FilterRows(df, sel) ==
    LET byArea == GetitemMask(df, isin(Column(df, filter_col(sel.level)),
                                       sel.areas))
        years  == Column(byArea, YEAR_COL)
        byYear == GetitemMask(byArea,
                              [i \in DOMAIN years |->
                                  /\ years[i] >= sel.years[1]
                                  /\ years[i] <= sel.years[2]])
        shore  == Column(byYear, SHORELINE_COL)
        value  == SHORELINE_OPTIONS[sel.shoreline]
    IN  IF value # "None"
        THEN GetitemMask(byYear, [i \in DOMAIN shore |-> shore[i] = value])
        ELSE byYear

\* AddWeightedColumns with the values left unweighted
AddUnweightedColumns(fd) ==
    LET a == IF AREA_COL \in fd.cols /\ COUNT_COL \in fd.cols
             THEN SetItem(fd, "weighted_area", Column(fd, AREA_COL))
             ELSE fd
    IN  IF MEAN_COL \in a.cols /\ COUNT_COL \in a.cols
        THEN SetItem(a, "weighted_avg_price", Column(a, MEAN_COL))
        ELSE a

\* lines 164-170: the scratch columns written into filtered_data
AddWeightedColumns(fd) ==
    LET a == IF AREA_COL \in fd.cols /\ COUNT_COL \in fd.cols
             THEN SetItem(fd, "weighted_area",
                          MulColumns(Column(fd, AREA_COL), Column(fd, COUNT_COL)))
             ELSE fd
    IN  IF MEAN_COL \in a.cols /\ COUNT_COL \in a.cols
        THEN SetItem(a, "weighted_avg_price",
                     MulColumns(Column(a, MEAN_COL), Column(a, COUNT_COL)))
        ELSE a

\* line 173: the median column is aggregated for a single selected area only
AggregatesMedian(fd, sel) ==
    MEDIAN_COL \in fd.cols /\ Cardinality(sel.areas) = 1

\* lines 161-174: agg_funcs, each column with the function applied to it
agg_funcs(fd, sel) ==
    LET on == {c \in {COUNT_COL, "weighted_area", "weighted_avg_price"} :
                  c \in fd.cols}
              \cup (IF AggregatesMedian(fd, sel) THEN {MEDIAN_COL} ELSE {})
    IN  [c \in on |-> <<c, IF c = MEDIAN_COL THEN "median" ELSE "sum">>]

\* lines 156-158
group_cols(sel) ==
    IF sel.shoreline = "Kaikki" THEN <<REGION_COL, YEAR_COL, SHORELINE_COL>>
    ELSE <<REGION_COL, YEAR_COL>>

\* lines 179-184: a weighted sum divided by the summed count, scratch column dropped
FinishWeighted(cd, scratch, col) ==
    IF scratch \in cd.cols /\ COUNT_COL \in cd.cols
    THEN DropColumn(SetItem(cd, col, DivColumns(Column(cd, scratch),
                                                 Column(cd, COUNT_COL))),
                    scratch)
    ELSE cd

\* line 177: the grouped sums
GroupedSums(fd, sel) ==
    GroupByAgg(fd, group_cols(sel), agg_funcs(fd, sel), "chart_data")

\* RefusesMedian refusing from three areas on
RefusesMedianOverTwo(sel) ==
    sel.metric = MEDIAN_COL /\ Cardinality(sel.areas) > 2

\* line 189: the median of several regions is refused
RefusesMedian(sel) ==
    sel.metric = MEDIAN_COL /\ Cardinality(sel.areas) > 1

\* lines 176-186: the region-level aggregation of filtered_data
Aggregated(fd, sel) ==
    IF DOMAIN agg_funcs(fd, sel) # {}
    THEN FinishWeighted(
             FinishWeighted(GroupedSums(fd, sel), "weighted_area", AREA_COL),
             "weighted_avg_price", MEAN_COL)
    ELSE EmptyDataFrame

\* lines 155-194: chart_data, from filtered_data with its scratch columns
ChartData(fd, sel) ==
    IF sel.level = "Maakunta"
    THEN IF RefusesMedian(sel) THEN EmptyDataFrame ELSE Aggregated(fd, sel)
    ELSE fd

\* the divisions of lines 180 and 183, as <<column, numerator, denominator>>
ChartDivisions(fd, sel) ==
    IF sel.level = "Maakunta" /\ DOMAIN agg_funcs(fd, sel) # {}
    THEN LET g == GroupedSums(fd, sel)
         IN  {<<p[2], g.rows[i][p[1]], g.rows[i][COUNT_COL]>> :
                 i \in DOMAIN g.rows,
                 p \in {q \in {<<"weighted_area", AREA_COL>>,
                               <<"weighted_avg_price", MEAN_COL>>} :
                           q[1] \in g.cols /\ COUNT_COL \in g.cols}}
    ELSE {}

\* LineSection with the elif of line 229 turned into an else
LineSectionAlwaysWarns(cd, sel) ==
    IF ~IsEmpty(cd) /\ sel.metric \in cd.cols THEN {"line_chart"}
    ELSE {"no_data_warning"}

\* lines 200 and 229: what the time-series section shows below the refusal
LineSection(cd, sel) ==
    IF ~IsEmpty(cd) /\ sel.metric \in cd.cols THEN {"line_chart"}
    ELSE IF \/ sel.metric # MEDIAN_COL
            \/ Cardinality(sel.areas) = 1
            \/ sel.level # "Maakunta"
         THEN {"no_data_warning"}
    ELSE {}

\* lines 189-231: the whole time-series section
TimeSeriesSection(cd, sel) ==
    (IF sel.level = "Maakunta" /\ RefusesMedian(sel)
     THEN {"median_refusal_warning"} ELSE {})
    \cup LineSection(cd, sel)

\* line 240
group_cols_bar(sel) == <<filter_col(sel.level), SHORELINE_COL>>

\* lines 249-252 and 256-259: the period totals before the division
PeriodTotals(fd, sel, total) ==
    LET temp_df_bar == SetItem(Copy(fd, "temp_df_bar"), total,
                               MulColumns(Column(fd, sel.metric),
                                          Column(fd, COUNT_COL)))
    IN  GroupByAgg(temp_df_bar, group_cols_bar(sel),
                   [c \in {total, "total_count"} |->
                       IF c = total THEN <<total, "sum">>
                       ELSE <<COUNT_COL, "sum">>],
                   "summary_bar")

\* lines 252 and 259
PeriodWeightedMean(fd, sel, total) ==
    LET summary_bar == PeriodTotals(fd, sel, total)
    IN  SetItem(summary_bar, sel.metric,
                DivColumns(Column(summary_bar, total),
                           Column(summary_bar, "total_count")))

\* lines 244-266: bar_chart_data as the branch taken leaves it; the branch of
\* the count metric fills agg_funcs_bar and assigns nothing to bar_chart_data
BarChartData(fd, sel) ==
    IF sel.metric = COUNT_COL THEN Unbound
    ELSE IF sel.metric = AREA_COL /\ COUNT_COL \in fd.cols
        THEN PeriodWeightedMean(fd, sel, "total_area")
    ELSE IF sel.metric = MEAN_COL /\ COUNT_COL \in fd.cols
        THEN PeriodWeightedMean(fd, sel, "total_price")
    ELSE IF sel.metric \in fd.cols
        THEN GroupByAgg(fd, group_cols_bar(sel),
                        [c \in {sel.metric} |-> <<c, "mean">>], "bar_chart_data")
    ELSE EmptyDataFrame

\* the divisions of lines 252 and 259
BarDivisions(fd, sel) ==
    IF sel.metric \in {AREA_COL, MEAN_COL} /\ COUNT_COL \in fd.cols /\ ~IsEmpty(fd)
    THEN LET total == IF sel.metric = AREA_COL THEN "total_area" ELSE "total_price"
             t == PeriodTotals(fd, sel, total)
         IN  {<<total, t.rows[i][total], t.rows[i]["total_count"]>> :
                 i \in DOMAIN t.rows}
    ELSE {}

\* lines 236-288: the bar-chart section; reading the unbound bar_chart_data at
\* line 268 raises NameError, which ends the script run
BarSection(fd, sel) ==
    IF sel.metric = MEDIAN_COL THEN {"bar_info"}
    ELSE IF ~IsEmpty(fd)
        THEN LET b == BarChartData(fd, sel)
             IN  IF b = Unbound THEN {"NameError"}
                 ELSE IF ~IsEmpty(b) /\ sel.metric \in b.cols THEN {"bar_chart"}
                 ELSE {"bar_no_data_warning"}
    ELSE {"bar_no_data_warning"}

\* lines 291-295: the table is reached unless the run has ended in an exception
TableSection(bar) == IF "NameError" \in bar THEN {} ELSE {"table"}

\* one run of the script body for the widget values sel, on the table df:
\* every name the run binds and everything it shows
ScriptRun(df, sel) ==
    IF df.rows = <<>>
    THEN \* line 111: the minimum of an empty year column is NaN and int()
         \* of it raises ValueError; the run ends there
         [data |-> df, filtered_data |-> Unbound, chart_data |-> Unbound,
          bar_chart_data |-> Unbound, shown |-> {"ValueError"},
          divisions |-> {}]
    ELSE IF sel.areas = {}
    THEN \* lines 136-138: st.stop()
         [data |-> df, filtered_data |-> Unbound, chart_data |-> Unbound,
          bar_chart_data |-> Unbound, shown |-> {"select_area_warning"},
          divisions |-> {}]
    ELSE LET filtered == FilterRows(df, sel)
             fd  == IF sel.level = "Maakunta" THEN AddWeightedColumns(filtered)
                    ELSE filtered
             cd  == ChartData(fd, sel)
             bar == BarSection(fd, sel)
         IN  [data |-> IF fd.obj = df.obj THEN fd ELSE df,
              filtered_data |-> fd,
              chart_data |-> cd,
              bar_chart_data |->
                  IF sel.metric # MEDIAN_COL /\ ~IsEmpty(fd)
                  THEN BarChartData(fd, sel) ELSE Unbound,
              shown |-> TimeSeriesSection(cd, sel) \cup bar \cup TableSection(bar),
              divisions |-> ChartDivisions(fd, sel) \cup BarDivisions(fd, sel)]

\* the widget values a user can set on the loaded table df
\* (on a table without rows the run ends at line 111, after the level radio
\* and the area multiselect, which has no options: the widgets below line 111
\* are never created and keep the values of NoSelection)
Selections(df) ==
    IF df.rows = <<>>
    THEN {[NoSelection EXCEPT !.level = l] : l \in AGGREGATION_LEVELS}
    ELSE {[level |-> l, areas |-> a, years |-> <<lo, hi>>, shoreline |-> s,
           metric |-> m] :
             l \in AGGREGATION_LEVELS, a \in SUBSET AreaOptions(df, "Kunta")
                 \cup SUBSET AreaOptions(df, "Maakunta"),
             lo \in min_year(df)..max_year(df),
             hi \in min_year(df)..max_year(df),
             s \in DOMAIN SHORELINE_OPTIONS, m \in METRIC_COLS}

\* a widget changes and the script runs again from the top
Rerun(sel) ==
    /\ data # NotLoaded
    /\ sel.areas \subseteq AreaOptions(data, sel.level)
    /\ sel.years[1] <= sel.years[2]
    /\ \E run \in {ScriptRun(data, sel)} :
           /\ selected' = sel
           /\ data' = run.data
           /\ filtered_data' = run.filtered_data
           /\ chart_data' = run.chart_data
           /\ bar_chart_data' = run.bar_chart_data
           /\ shown' = run.shown
           /\ divisions' = run.divisions
    /\ UNCHANGED <<csv, mapping, data0, file, file0, runs>>

(***************************************************************************)
(* The dashboard on the loaded tables                                      *)
(***************************************************************************)
MaxRows == 2

\* count, average area, median price and mean price of a file line: plain
\* numbers, a zero count, an unparsable count, missing metrics with a count
Profiles ==
    {<<"10", "50", "90", "100">>, <<"30", "80", "150", "200">>,
     <<"0", "50", "90", "100,0">>, <<"abc", "80", "150", "200">>,
     <<"30", NA, NA, NA>>}

\* the file lines of the dashboard runs: every bucket of two municipalities
\* of different regions with plain values, every profile of values for a
\* second municipality of the first region in one bucket, a second profile in
\* that bucket, and a municipality the mapping lacks
AppRawRows ==
    {RawRow(y, m, s, "10", "50", "90", "100") :
        y \in {"2020", "2021"}, m \in {"muniX", "muniZ"},
        s \in {"ranta", "ei_rantaa"}}
    \cup {RawRow("2020", "muniY", "ranta", p[1], p[2], p[3], p[4]) :
            p \in Profiles}
    \cup {RawRow("2020", "muniX", "ranta", "30", "80", "150", "200"),
          RawRow("2020", "muniW", "ranta", "30", "80", "150", "200")}

\* muniX and muniY lie in one region, muniZ in another, muniW in none
AppMapping ==
    [m \in {"muniX", "muniY", "muniZ"} |->
        IF m = "muniZ" THEN "RegionB" ELSE "RegionA"]

RECURSIVE KSubsets(_, _)
\* the subsets of S with k elements
KSubsets(S, k) ==
    IF k = 0 THEN {{}}
    ELSE {T \cup {x} : x \in S, T \in KSubsets(S, k - 1)} \ KSubsets(S, k - 1)

RECURSIVE SetToSeq(_)
SetToSeq(S) ==
    IF S = {} THEN <<>>
    ELSE LET x == CHOOSE y \in S : TRUE IN <<x>> \o SetToSeq(S \ {x})

\* the files with up to n distinct lines out of R below the header line (the
\* order of the lines of a file changes none of the results below, only the
\* order of their rows); the file of the header line alone loads as a table
\* without rows
Csvs(R, n) ==
    {DataFrame("csv", FileCols, SetToSeq(S)) :
        S \in UNION {KSubsets(R, k) : k \in 0..n}}

InitOn(files) ==
    /\ csv \in files
    /\ mapping = AppMapping
    /\ data = load_data(csv, mapping)
    /\ data0 = data
    /\ selected = NoSelection
    /\ filtered_data = Idle
    /\ chart_data = Idle
    /\ bar_chart_data = Idle
    /\ shown = {}
    /\ divisions = {}
    /\ file = <<>>
    /\ file0 = <<>>
    /\ runs = 0

InitApp == InitOn(Csvs(AppRawRows, MaxRows))

\* a script run on the table as loaded. A run reads the loaded table and the
\* widget values and nothing an earlier run has bound (SpecSession checks that
\* runs leave the loaded table as it was), so every run of a session is one
\* of these.
RunOnce(sel) == selected = NoSelection /\ Rerun(sel)

NextApp == \E sel \in Selections(data) : RunOnce(sel)

SpecApp == InitApp /\ [][NextApp]_vars

(***************************************************************************)
(* Sessions: any sequence of widget changes                                *)
(***************************************************************************)
MaxSessionRows == 2

SessionRawRows ==
    {RawRow("2020", "muniX", "ranta", "10", "50", "90", "100"),
     RawRow("2020", "muniY", "ranta", "30", "80", "150", "200"),
     RawRow("2021", "muniZ", "ei_rantaa", "30", NA, NA, NA),
     RawRow("abc", "muniX", "ranta", "10", "50", "90", "100")}

InitSession == InitOn(Csvs(SessionRawRows, MaxSessionRows))

NextSession == \E sel \in Selections(data) : Rerun(sel)

SpecSession == InitSession /\ [][NextSession]_vars

(***************************************************************************)
(* update_header.py and translate_values.py                                *)
(*                                                                         *)
(* The file is a sequence of lines; a line is its cells and its line       *)
(* terminator; a cell is its text and whether it stands in quotes.         *)
(***************************************************************************)
MaxLines == 2
MaxRuns == 2

Cell(t, q) == [text |-> t, quoted |-> q]
Line(cs, e) == [cells |-> cs, eol |-> e]

\* the cell texts of the modelled files; one holds the delimiter
CellTexts == {"a", "b;c", ""}

\* csv.writer, QUOTE_MINIMAL with delimiter ';': a field is quoted when it
\* holds the delimiter, the quote character or a line break, and a row made of
\* one empty field is written as ""
NeedsQuotes(row, i) ==
    \/ row[i] \in {"b;c"}
    \/ Len(row) = 1 /\ row[1] = ""

\* csv.reader on one line: the field values, quotes removed
ReadLine(l) == [i \in DOMAIN l.cells |-> l.cells[i].text]

\* list(reader): the rows of a sequence of lines
ReadLines(ls) == [i \in DOMAIN ls |-> ReadLine(ls[i])]

\* writer.writerow(row): minimal quoting, lineterminator '\r\n'
WriteRow(row) ==
    Line([i \in DOMAIN row |-> Cell(row[i], NeedsQuotes(row, i))], "\r\n")

\* writer.writerows(rows)
WriteRows(rows) == [i \in DOMAIN rows |-> WriteRow(rows[i])]

\* update_header without the next(reader) of line 14
update_header_keeps_header(f) ==
    IF f = <<>> THEN f
    ELSE <<WriteRow(new_header)>> \o WriteRows(ReadLines(f))

\* lines 11-22: the file the utility leaves; next(reader) on a file without
\* lines raises StopIteration, caught at line 28 before the file is opened
\* for writing
update_header(f) ==
    IF f = <<>> THEN f
    ELSE LET data_rows == ReadLines(Tail(f))
         IN  <<WriteRow(new_header)>> \o WriteRows(data_rows)

(***************************************************************************)
(* translate_values.py, which rewrites the same file                       *)
(***************************************************************************)
\* line 7
column_name == "rantatyyppi"

\* line 24
column_name_en == "shoreline_type"

\* lines 10-13
value_map == ("with" :> "ranta") @@ ("without" :> "ei_rantaa")

\* line 40: to_csv ends a line with os.linesep, '\n' where the repository's
\* scripts run
linesep == "\n"

\* the numerals of the modelled files that read_csv parses as integers
IntNumerals == {"1"}

\* the numerals of the modelled files, and how to_csv writes each from a
\* float64 column
FloatRepr == ("1" :> "1.0") @@ ("1.0" :> "1.0")

\* line 18, read_csv: the records of the file, blank lines skipped
ReadCsvRecords(f) ==
    LET NotBlank(r) == r # <<>> IN SelectSeq(ReadLines(Tail(f)), NotBlank)

\* line 18, read_csv: the value of column j in a record; an empty field,
\* quoted or not, and a field the record is too short for are missing
ReadCsvValue(rec, j) == IF j <= Len(rec) /\ rec[j] # "" THEN rec[j] ELSE NA

\* line 18, read_csv: column j is float64 when it holds no text but numerals
\* and one of them is no integer or a value is missing (int64 when all are
\* integers, object when a value is text)
IsFloatColumn(recs, j) ==
    LET vals == {ReadCsvValue(recs[i], j) : i \in DOMAIN recs}
    IN  /\ vals \subseteq DOMAIN FloatRepr \cup {NA}
        /\ vals \ {NA} # {}
        /\ \/ NA \in vals
           \/ ~(vals \subseteq IntNumerals)

\* lines 21-30: the column the values are replaced in; NA when the file has
\* neither name and the script exits
TranslatedColumn(names) ==
    IF column_name \in Range(names) THEN column_name
    ELSE IF column_name_en \in Range(names) THEN column_name_en
    ELSE NA

\* lines 33 and 40: the text to_csv writes for column j of a record, col being
\* the column whose values replace() maps through value_map; a missing value
\* is written as the empty field
ToCsvField(recs, names, col, i, j) ==
    LET v == ReadCsvValue(recs[i], j)
    IN  IF v = NA THEN ""
        ELSE IF names[j] = col /\ v \in DOMAIN value_map THEN value_map[v]
        ELSE IF IsFloatColumn(recs, j) THEN FloatRepr[v]
        ELSE v

\* line 40, to_csv: a row written with minimal quoting and os.linesep
ToCsvLine(row) == [WriteRow(row) EXCEPT !.eol = linesep]

\* lines 15-47: the file the script leaves, for files none of whose records
\* has more fields than the header. A file without lines raises
\* EmptyDataError, caught at line 46, and a header with neither column name
\* ends in exit() at line 30: both leave the file as it was.
translate_values(f) ==
    IF f = <<>> THEN f
    ELSE LET names == ReadLine(f[1])
             recs  == ReadCsvRecords(f)
             col   == TranslatedColumn(names)
         IN  IF col = NA THEN f
             ELSE <<ToCsvLine(names)>>
                  \o [i \in DOMAIN recs |->
                         ToCsvLine([j \in DOMAIN names |->
                                       ToCsvField(recs, names, col, i, j)])]

(***************************************************************************)
(* The files of the two scripts                                            *)
(***************************************************************************)
\* the lines a semicolon-delimited file can hold: a cell whose text holds the
\* delimiter stands in quotes, and an unquoted empty cell alone is a blank line
FileCells == {c \in {Cell(t, q) : t \in CellTexts, q \in BOOLEAN} :
                 c.text = "b;c" => c.quoted}

\* the values of the shoreline column before and after translation
ShoreTexts == {"with", "without", "ranta"}

\* lines with a field for every column of the header: a year numeral or an
\* empty field, six text fields and a shoreline value
FullLines(e) ==
    {Line(<<Cell(y, FALSE)>> \o [j \in 1..6 |-> Cell("a", FALSE)]
              \o <<Cell(s, FALSE)>>, e) :
        y \in {"1", ""}, s \in ShoreTexts}

\* the lines of a file whose lines end in e: short records of up to two
\* fields, the blank line among them, and full records
FileLines(e) ==
    ({Line(cs, e) : cs \in SeqsUpTo(FileCells, 2)}
         \ {Line(<<Cell("", FALSE)>>, e)})
    \cup FullLines(e)

\* the header line the dataset came with
old_header ==
    <<"year", "area_code", "area_name", "count", "avg_area_m2", "median_price",
      "mean_price", "shoreline_type">>

\* header lines of a file whose lines end in e: the English one, or the
\* migrated one when the utility wrote the file
HeaderLines(e) ==
    {Line([i \in DOMAIN old_header |-> Cell(old_header[i], FALSE)], e)}
    \cup (IF e = "\r\n" THEN {WriteRow(new_header)} ELSE {})

InitHeader ==
    /\ \/ file = <<>>
       \/ \E e \in {"\n", "\r\n"} :
             \E h \in HeaderLines(e), d \in SeqsUpTo(FileLines(e), MaxLines) :
                 file = <<h>> \o d
    /\ file0 = file
    /\ runs = 0
    /\ csv = Idle
    /\ mapping = <<>>
    /\ data = NotLoaded
    /\ data0 = NotLoaded
    /\ selected = NoSelection
    /\ filtered_data = Idle
    /\ chart_data = Idle
    /\ bar_chart_data = Idle
    /\ shown = {}
    /\ divisions = {}

\* one run of update_header.py
RunUpdateHeader ==
    /\ runs < MaxRuns
    /\ file' = update_header(file)
    /\ runs' = runs + 1
    /\ UNCHANGED <<appVars, file0>>

\* one run of translate_values.py on the same file; the history of the
\* header utility starts again from the file this run leaves
RunTranslateValues ==
    /\ file' = translate_values(file)
    /\ file0' = file'
    /\ runs' = 0
    /\ UNCHANGED appVars

NextHeader == RunUpdateHeader \/ RunTranslateValues

SpecHeader == InitHeader /\ [][NextHeader]_vars

(***************************************************************************)
(* Properties                                                              *)
(***************************************************************************)
\* the last script run went past the empty-selection guard of line 136
Ran == selected # NoSelection /\ selected.areas # {}

RegionRun == Ran /\ selected.level = "Maakunta"

Project(r, cols) == [c \in cols |-> r[c]]

RECURSIVE TotalOf(_)
\* the sum of a sequence of integers
TotalOf(s) == IF s = <<>> THEN 0 ELSE Head(s) + TotalOf(Tail(s))

\* the rows of df with the group key k, in order
RowsOfGroup(df, by, k) ==
    LET InGroup(r) == KeyOf(r, by) = k IN SelectSeq(df.rows, InGroup)

\* C1: a row of the loaded table is in the filtered table exactly when its
\* area (region at region level, municipality at municipality level) is
\* selected, its year lies in the selected range and the shoreline filter is
\* "all" or equals its shoreline type; the filtered rows are rows of the
\* loaded table, in the loaded order.
C1_FilterExact ==
    Ran =>
        LET areaCol == IF selected.level = "Maakunta" THEN "maakunta"
                       ELSE "aluejakoselite"
            Keep(r) ==
                /\ r[areaCol] \in selected.areas
                /\ selected.years[1] <= r["vuosi"]
                /\ r["vuosi"] <= selected.years[2]
                /\ \/ selected.shoreline = "Kaikki"
                   \/ selected.shoreline = "Ranta" /\ r["rantatyyppi"] = "ranta"
                   \/ selected.shoreline = "Ei rantaa"
                      /\ r["rantatyyppi"] = "ei_rantaa"
        IN  [i \in DOMAIN filtered_data.rows |->
                Project(filtered_data.rows[i], data0.cols)]
            = SelectSeq(data0.rows, Keep)

\* C1 witness: each of the three filters has removed a row and a row is left
C1_Witness ==
    /\ Ran
    /\ selected.shoreline = "Ranta"
    /\ filtered_data.rows # <<>>
    /\ \E i \in DOMAIN data.rows :
          /\ data.rows[i]["rantatyyppi"] = "ei_rantaa"
          /\ data.rows[i][filter_col(selected.level)] \in selected.areas
    /\ Len(filtered_data.rows) < Len(data.rows)

\* C2: at region level each group of filtered rows sharing region and year
\* (and shoreline type when the shoreline filter is "all") gives exactly one
\* aggregated row; its count is the sum of the group's counts, and where every
\* row of the group has a count and a value and the counts are not all zero,
\* its mean price and its average area are sum(value*count)/sum(count); the
\* aggregated table is the chart table unless the median is refused.
C2_WeightedMean ==
    RegionRun =>
        LET by   == IF selected.shoreline = "Kaikki"
                    THEN <<"maakunta", "vuosi", "rantatyyppi">>
                    ELSE <<"maakunta", "vuosi">>
            agg  == Aggregated(filtered_data, selected)
            keys == {KeyOf(filtered_data.rows[i], by) :
                        i \in DOMAIN filtered_data.rows}
        IN  /\ Len(agg.rows) = Cardinality(keys)
            /\ ~RefusesMedian(selected) => chart_data = agg
            /\ \A k \in keys :
                 LET g   == RowsOfGroup(filtered_data, by, k)
                     out == RowsOfGroup(agg, by, k)
                     n   == TotalOf([i \in DOMAIN g |->
                                IF IsNaN(g[i][COUNT_COL]) THEN 0
                                ELSE g[i][COUNT_COL][1]])
                 IN  /\ Len(out) = 1
                     /\ out[1][COUNT_COL] = <<n, 1>>
                     /\ \A col \in {AREA_COL, MEAN_COL} :
                          ( /\ n > 0
                            /\ \A i \in DOMAIN g : ~IsNaN(g[i][COUNT_COL])
                                                   /\ ~IsNaN(g[i][col]) )
                          => /\ IsFinite(out[1][col])
                             /\ out[1][col][1] * n
                                = out[1][col][2]
                                  * TotalOf([i \in DOMAIN g |->
                                        g[i][col][1] * g[i][COUNT_COL][1]])

\* C2 witness: counts 10 and 30 with prices 100 and 200 in one group give the
\* mean price 175, not 150
C2_Witness ==
    /\ RegionRun
    /\ Len(filtered_data.rows) = 2
    /\ \E i \in DOMAIN chart_data.rows :
          /\ MEAN_COL \in DOMAIN chart_data.rows[i]
          /\ chart_data.rows[i][COUNT_COL] = <<40, 1>>
          /\ chart_data.rows[i][MEAN_COL] = <<175, 1>>

\* the per-row values of column col in the group of row j of the chart table
GroupValues(j, col) ==
    LET by == group_cols(selected)
        g  == RowsOfGroup(filtered_data, by, KeyOf(chart_data.rows[j], by))
    IN  {g[i][col] : i \in DOMAIN g} \ {NaN}

\* C3 (as claimed): at region level every computed average area and mean
\* price lies between the least and the greatest non-missing value of that
\* metric in its group, also when a row of the group has a count and no value.
C3_WeightedMeanBounded ==
    RegionRun =>
        \A j \in DOMAIN chart_data.rows :
            \A col \in {AREA_COL, MEAN_COL} \cap chart_data.cols :
                IsFinite(chart_data.rows[j][col]) =>
                    /\ \E v \in GroupValues(j, col) :
                          Leq(v, chart_data.rows[j][col])
                    /\ \E v \in GroupValues(j, col) :
                          Leq(chart_data.rows[j][col], v)

\* C4 (as claimed): neither weighted average ever divides by a zero count sum.
C4_NoDivisionByZero ==
    \A d \in divisions : d[3] # <<0, 1>>

\* C5: at region level with the median metric and more than one area selected
\* the chart table is the empty table and no line chart is drawn; the median
\* column is aggregated only for a single selected area.
C5_MedianRefused ==
    RegionRun =>
        /\ (selected.metric = "mediaanihinta_eur"
            /\ Cardinality(selected.areas) > 1)
           => /\ chart_data.rows = <<>>
              /\ chart_data.cols = {}
              /\ "line_chart" \notin shown
        /\ "mediaanihinta_eur" \in chart_data.cols
           \cup Aggregated(filtered_data, selected).cols
           => Cardinality(selected.areas) = 1

\* C5 witness: two regions with rows, median selected
C5_Witness ==
    /\ RegionRun
    /\ selected.metric = "mediaanihinta_eur"
    /\ Cardinality(selected.areas) = 2
    /\ Cardinality(Range(Column(filtered_data, REGION_COL))) = 2

\* the period-average count of the selected areas: per area and shoreline
\* type, the mean over the years of the year's total count
PeriodAverageCount(fd, sel) ==
    LET by    == <<filter_col(sel.level), SHORELINE_COL>>
        pairs == {KeyOf(fd.rows[i], by) : i \in DOMAIN fd.rows}
        Yearly(k) ==
            LET g  == RowsOfGroup(fd, by, k)
                ys == SortKeys(<<YEAR_COL>>,
                               {KeyOf(g[i], <<YEAR_COL>>) : i \in DOMAIN g})
            IN  [y \in DOMAIN ys |->
                    SumSkipNa(GroupColumn(DataFrame("g", fd.cols, g),
                                          <<YEAR_COL>>, ys[y], COUNT_COL))]
    IN  {[c \in Range(by) \cup {COUNT_COL} |->
            IF c = COUNT_COL THEN Mean(Yearly(k)) ELSE k[c]] : k \in pairs}

\* C6 (as claimed): with the count metric and filtered rows, the bar-chart
\* view computes the period-average count of every area and shoreline type
\* and draws the bar chart from it.
C6_BarChartCount ==
    (Ran /\ selected.metric = "lukumäärä" /\ filtered_data.rows # <<>>)
    => /\ "bar_chart" \in shown
       /\ bar_chart_data # Unbound
       /\ Range(bar_chart_data.rows)
          = PeriodAverageCount(filtered_data, selected)

\* C10: the time-series section shows exactly one of a line chart, the median
\* refusal and the "no data" warning: the chart when the chart table is
\* non-empty and has the metric, the refusal at region level with the median
\* and several areas, the "no data" warning otherwise.
C10_OneOutcome ==
    Ran =>
        LET chart   == "line_chart" \in shown
            refusal == "median_refusal_warning" \in shown
            nodata  == "no_data_warning" \in shown
        IN  /\ chart <=> (chart_data.rows # <<>> /\ chart_data.cols # {}
                          /\ selected.metric \in chart_data.cols)
            /\ refusal <=> (selected.level = "Maakunta"
                            /\ selected.metric = "mediaanihinta_eur"
                            /\ Cardinality(selected.areas) > 1)
            /\ nodata <=> (~chart /\ ~refusal)
            /\ Cardinality({"line_chart", "median_refusal_warning",
                            "no_data_warning"} \cap shown) = 1

\* C10 witness: the "no data" warning at region level with the median of a
\* single area, whose rows the shoreline filter has removed
C10_Witness ==
    /\ RegionRun
    /\ selected.metric = "mediaanihinta_eur"
    /\ Cardinality(selected.areas) = 1
    /\ "no_data_warning" \in shown
    /\ "median_refusal_warning" \notin shown

\* C7 (as claimed): after a load every region is non-null, mapping[name] when
\* the municipality name is a key of the mapping and the unknown sentinel
\* otherwise.
C7_RegionOfEveryKey ==
    data # NotLoaded =>
        \A i \in DOMAIN data.rows :
            LET name == data.rows[i]["aluejakoselite"]
                region == data.rows[i]["maakunta"]
            IN  /\ region \notin {NA, "nan"}
                /\ name \in DOMAIN mapping => region = mapping[name]
                /\ name \notin DOMAIN mapping => region = "Tuntematon"

\* C7 (amended): after a load every region is non-null, mapping[name] when the
\* municipality name is a key of the mapping with a non-missing value and the
\* unknown sentinel otherwise; with an empty mapping, or one without a key
\* among the municipality names, every region is the unknown sentinel.
C7_RegionNeverNull ==
    data # NotLoaded =>
        /\ \A i \in DOMAIN data.rows :
              LET name == data.rows[i]["aluejakoselite"]
                  region == data.rows[i]["maakunta"]
                  mapped == name \in DOMAIN mapping /\ mapping[name] # NA
              IN  /\ region \notin {NA, "nan"}
                  /\ mapped => region = mapping[name]
                  /\ ~mapped => region = "Tuntematon"
        /\ (\A i \in DOMAIN data.rows :
               data.rows[i]["aluejakoselite"] \notin DOMAIN mapping)
           => \A i \in DOMAIN data.rows : data.rows[i]["maakunta"] = "Tuntematon"

\* C7 witness: a mapped municipality and one whose key has a missing region
C7_Witness ==
    /\ data # NotLoaded
    /\ \E i, j \in DOMAIN data.rows :
          /\ data.rows[i]["maakunta"] = "RegionA"
          /\ data.rows[j]["aluejakoselite"] \in DOMAIN mapping
          /\ mapping[data.rows[j]["aluejakoselite"]] = NA
          /\ data.rows[j]["maakunta"] = "Tuntematon"

\* C8: after one or more runs on a file with a header line the file reads as
\* the eight-column header followed by the original data rows, in order and
\* with their field values, and a further run leaves the file identical.
C8_HeaderMigration ==
    (runs >= 1 /\ file0 # <<>>) =>
        /\ Len(file) = Len(file0)
        /\ [i \in DOMAIN file |-> [j \in DOMAIN file[i].cells |->
                                      file[i].cells[j].text]]
           = <<new_header>>
             \o [i \in 1..(Len(file0) - 1) |->
                    [j \in DOMAIN file0[i + 1].cells |->
                        file0[i + 1].cells[j].text]]
        /\ update_header(file) = file

\* C8 witness: the second run on a file whose data lines the first run has
\* rewritten (quotes dropped, line endings changed), one cell holding the
\* delimiter
C8_Witness ==
    /\ runs = 2
    /\ Len(file0) = 3
    /\ file0[2].eol = "\n"
    /\ \E j \in DOMAIN file0[2].cells : file0[2].cells[j] = Cell("a", TRUE)
    /\ \E j \in DOMAIN file0[3].cells : file0[3].cells[j].text = "b;c"
    /\ Tail(file) # Tail(file0)

\* C9: whatever script runs came before, the loaded table is the table
\* load_data returned, without the scratch columns, and what the last run
\* bound and showed is what a run on the table as loaded gives for the same
\* widget values.
C9_LoadedTableUntouched ==
    /\ data = data0
    /\ data.cols \cap {"weighted_area", "weighted_avg_price", "total_area",
                       "total_price"} = {}
    /\ selected # NoSelection =>
          LET run == ScriptRun(data0, selected)
          IN  /\ filtered_data = run.filtered_data
              /\ chart_data = run.chart_data
              /\ bar_chart_data = run.bar_chart_data
              /\ shown = run.shown

\* C9 witness: a region-level run that kept every row of the loaded table,
\* wrote the scratch columns into filtered_data and drew the weighted bar chart
C9_Witness ==
    /\ RegionRun
    /\ Len(filtered_data.rows) = Len(data.rows)
    /\ Len(data.rows) = 2
    /\ "weighted_area" \in filtered_data.cols
    /\ "total_price" \in bar_chart_data.cols
    /\ "table" \in shown

====
